---- MODULE Spec2Model ----
(***************************************************************************)
(* A state-machine model of the Python class ALM (python/alm/alm.py), the  *)
(* wrapper around the native force-constant engine `_alm`.                 *)
(*                                                                         *)
(* The wrapper's fields are the variables; every public method is one      *)
(* action.  The native engine is not part of the Python sources: it is     *)
(* modelled by the state it is handed through the binding calls (the       *)
(* structure, verbosity and order definition it last received, the live    *)
(* handles) and by nondeterministic answers where it returns a number.     *)
(* Every engine call an operation issues is recorded, in order, in         *)
(* last.calls, together with the operation's outcome.                      *)
(***************************************************************************)
EXTENDS Integers, Sequences, FiniteSets, TLC

VARIABLES
    id,             \* self._id: None or Some(handle)
    lavec,          \* self._lavec
    xcoord,         \* self._xcoord: one entry per atom
    numbers,        \* self._numbers: one entry per atom
    verbosity,      \* self._verbosity
    kind_indices,   \* self._kind_indices: None or Some(sequence)
    iconst,         \* self._iconst
    maxorder,       \* self._maxorder
    prefix,         \* self._output_filename_prefix: None or Some(string)
    need_transfer,  \* self._need_transfer
    cell,           \* self._cell: None or Some(structure)
    eng,            \* the native instance behind the handle
    last,           \* the last operation: its name, outcome and engine calls
    th              \* the two threads of the threaded specification

vars == <<id, lavec, xcoord, numbers, verbosity, kind_indices, iconst,
          maxorder, prefix, need_transfer, cell, eng, last, th>>

obj == <<id, lavec, xcoord, numbers, verbosity, kind_indices, iconst,
         maxorder, prefix, need_transfer, cell>>

(***************************************************************************)
(* Bounds of the model.                                                    *)
(***************************************************************************)
MaxAtoms == 2
MaxOrder == 2
MaxIrred == 2
MaxRows == 2
MaxFcLen == 4
MaxCutoffLen == 8
MaxSamples == 4
MaxFc == 2
MaxPatterns == 2
MaxDisp == 2

(***************************************************************************)
(* Values.  Python's None is the empty tuple and any other value x of an   *)
(* optional field is the one-element tuple <<x>>.                          *)
(***************************************************************************)
None == <<>>
Some(x) == <<x>>
Val(o) == o[1]

Coord == {0}
Species == {14}
Lavecs == {"cubic", "strained"}
Verbosities == {0, 1}
XCoords == UNION {[1..n -> Coord] : n \in 1..MaxAtoms}
Numbers == UNION {[1..n -> Species] : n \in 1..MaxAtoms}
Orders == 1..MaxOrder

\* The error an operation ends with; NoError is a normal return.
NoError == "none"
ErrUninitialized == "RuntimeError: This ALM object has to be initialized by ALM::alm_new()"
ErrTooMany == "RuntimeError: Too many ALM objects"
ErrCounts == "RuntimeError: Numbers of atomic points and atomic numbers don't agree."
ErrSolver == "ValueError: The given solver option is not supported."
ErrNbody == "RuntimeError: The size of nbody must be equal to maxorder."
ErrCutoff == "RuntimeError: The array shape of cutoff_radii is wrong."
ErrFcOrder == "ValueError: The fc_order must not be larger than the maximum order (maxorder)."
ErrMode == "ValueError: Invalid mode in get_fc."
ErrFcSize == "RuntimeError: The size of the given force constant array is incorrect."
ErrRotation == "Rotational invariance is not supported in API."
ErrAlready == "This ALM object is already initialized."
\* `raise("text")` raises a str, which Python answers with this TypeError;
\* the text itself is lost.
ErrRaiseStr == "TypeError: exceptions must derive from BaseException"
\* The binding refuses an argument it cannot convert (a handle of None).
ErrBindingArg == "TypeError: an integer is required"

\* One call of the binding `_alm`: its name, the handle it is given, its
\* other arguments and what the engine answers.
Call(f, h, a, r) == [f |-> f, id |-> h, arg |-> a, ret |-> r]
Fs(calls) == [i \in 1..Len(calls) |-> calls[i].f]
Issued(calls, f) == \E i \in 1..Len(calls) : calls[i].f = f

(***************************************************************************)
(* The native instance.  One wrapper object holds at most one handle, so   *)
(* the engine is the set of live handles and the state of the instance     *)
(* behind handle 0: the structure, verbosity and order definition it last  *)
(* received and the irreducible counts it derived at                       *)
(* generate_force_constant.  A call with a handle that is not live (None,  *)
(* a negative number) reaches no instance.                                 *)
(***************************************************************************)
FreshEngine ==
    [live |-> {}, cell |-> None, verbosity |-> None, maxorder |-> None,
     irred |-> [o \in Orders |-> 0], ndata |-> 0]

Live(e, h) == h # None /\ Val(h) \in e.live

EngApply(e, c) ==
    CASE c.f = "alm_new" ->
            IF c.ret >= 0
            THEN [FreshEngine EXCEPT !.live = e.live \cup {c.ret}]
            ELSE e
      [] c.f = "alm_delete" ->
            IF Live(e, c.id)
            THEN [FreshEngine EXCEPT !.live = e.live \ {Val(c.id)}]
            ELSE e
      [] c.f = "set_cell" ->
            IF Live(e, c.id) THEN [e EXCEPT !.cell = Some(c.arg)] ELSE e
      [] c.f = "set_verbosity" ->
            IF Live(e, c.id) THEN [e EXCEPT !.verbosity = Some(c.arg)] ELSE e
      [] c.f = "define" ->
            IF Live(e, c.id) THEN [e EXCEPT !.maxorder = Some(c.arg.maxorder)]
            ELSE e
      [] c.f = "generate_force_constant" ->
            IF Live(e, c.id) THEN [e EXCEPT !.irred = c.ret] ELSE e
      [] c.f = "set_training_data" ->
            IF Live(e, c.id) THEN [e EXCEPT !.ndata = c.arg.u[1]] ELSE e
      [] OTHER -> e

RECURSIVE EngRun(_, _)
EngRun(e, calls) ==
    IF calls = <<>> THEN e
    ELSE EngRun(EngApply(e, Head(calls)), Tail(calls))

\* The kind indices the engine writes into the buffer set_cell is handed:
\* contiguous labels from 1, one per species.  A handle that reaches no
\* instance leaves the zeros of np.zeros_like.
EngineKinds(e, h, nums) ==
    IF Live(e, h)
    THEN [i \in 1..Len(nums) |->
            Cardinality({nums[j] : j \in {k \in 1..Len(nums) : nums[k] < nums[i]}}) + 1]
    ELSE [i \in 1..Len(nums) |-> 0]

(***************************************************************************)
(* The record of the last operation, with the handle and the stale flag    *)
(* the operation found.                                                    *)
(***************************************************************************)
Finish(op, args, err, calls, ret) ==
    /\ last' = [op |-> op, args |-> args, err |-> err, calls |-> calls,
                ret |-> ret, pre_id |-> id, pre_stale |-> need_transfer]
    /\ eng' = EngRun(eng, calls)

(***************************************************************************)
(* _set_cell and _transfer_parameters.                                     *)
(***************************************************************************)
CurrentCell == [lavec |-> lavec, xcoord |-> xcoord, numbers |-> numbers]

\* A _set_cell that does not compare the two lengths.
CountsAgree_Unchecked == TRUE

\* len(self._xcoord) != len(self._numbers) raises.  The three fields are
\* always arrays (np.array of the argument), never None, so the `is None`
\* tests before it never fire.
CountsAgree == Len(xcoord) = Len(numbers)

\* A _transfer_parameters that forgets self._set_verbosity().
TransferParameters_NoVerbosity(e, h) ==
    IF ~need_transfer
    THEN [err |-> NoError, calls |-> <<>>, need |-> FALSE,
          kinds |-> kind_indices, cell |-> cell]
    ELSE IF Len(xcoord) # Len(numbers)
    THEN [err |-> ErrCounts, calls |-> <<>>, need |-> TRUE,
          kinds |-> kind_indices, cell |-> cell]
    ELSE [err |-> NoError,
          calls |-> <<Call("set_cell", h, CurrentCell, None)>>,
          need |-> FALSE,
          kinds |-> Some(EngineKinds(e, h, numbers)),
          cell |-> Some(CurrentCell)]

\* What _transfer_parameters does for handle h and engine e: the error it
\* raises, the engine calls it issues and the fields it leaves.
TransferParameters(e, h) ==
    IF ~need_transfer
    THEN [err |-> NoError, calls |-> <<>>, need |-> FALSE,
          kinds |-> kind_indices, cell |-> cell]
    ELSE IF h = None
    THEN [err |-> ErrUninitialized, calls |-> <<>>, need |-> TRUE,
          kinds |-> kind_indices, cell |-> cell]
    ELSE IF ~CountsAgree
    THEN [err |-> ErrCounts, calls |-> <<>>, need |-> TRUE,
          kinds |-> kind_indices, cell |-> cell]
    ELSE [err |-> NoError,
          calls |-> <<Call("set_cell", h, CurrentCell, None),
                      Call("set_verbosity", h, verbosity, None)>>,
          need |-> FALSE,
          kinds |-> Some(EngineKinds(e, h, numbers)),
          cell |-> Some(CurrentCell)]

(***************************************************************************)
(* The property setters.                                                   *)
(***************************************************************************)
SetLavec(v) ==
    /\ need_transfer' = TRUE
    /\ lavec' = v
    /\ Finish("lavec", v, NoError, <<>>, None)
    /\ UNCHANGED <<id, xcoord, numbers, verbosity, kind_indices, iconst,
                   maxorder, prefix, cell, th>>

SetXcoord(v) ==
    /\ need_transfer' = TRUE
    /\ xcoord' = v
    /\ Finish("xcoord", v, NoError, <<>>, None)
    /\ UNCHANGED <<id, lavec, numbers, verbosity, kind_indices, iconst,
                   maxorder, prefix, cell, th>>

SetNumbers(v) ==
    /\ need_transfer' = TRUE
    /\ numbers' = v
    /\ Finish("numbers", v, NoError, <<>>, None)
    /\ UNCHANGED <<id, lavec, xcoord, verbosity, kind_indices, iconst,
                   maxorder, prefix, cell, th>>

SetVerbosity(v) ==
    /\ verbosity' = v
    /\ need_transfer' = TRUE
    /\ Finish("verbosity", v, NoError, <<>>, None)
    /\ UNCHANGED <<id, lavec, xcoord, numbers, kind_indices, iconst,
                   maxorder, prefix, cell, th>>

(***************************************************************************)
(* alm_new and alm_delete.  The engine answers alm_new with a free handle  *)
(* (r = 0) or, when it has none left, with a negative number.              *)
(***************************************************************************)
\* The body of alm_new: what it does to the object and the engine.
AlmNewBody(r) ==
    IF id = None
    THEN LET c0 == <<Call("alm_new", None, None, r)>>
             t == TransferParameters(EngRun(eng, c0), Some(r))
         IN  /\ id' = Some(r)
             /\ IF r < 0
                THEN /\ Finish("alm_new", None, ErrTooMany, c0, None)
                     /\ UNCHANGED <<need_transfer, kind_indices, cell>>
                ELSE /\ need_transfer' = t.need
                     /\ kind_indices' = t.kinds
                     /\ cell' = t.cell
                     /\ Finish("alm_new", None, t.err, c0 \o t.calls, None)
             /\ UNCHANGED <<lavec, xcoord, numbers, verbosity, iconst,
                            maxorder, prefix>>
    ELSE /\ Finish("alm_new", None, ErrRaiseStr, <<>>, None)
         /\ UNCHANGED obj

AlmNew(r) == AlmNewBody(r) /\ UNCHANGED th

\* The body of alm_delete.
AlmDeleteBody ==
    IF id = None
    THEN /\ Finish("alm_delete", None, ErrUninitialized, <<>>, None)
         /\ UNCHANGED obj
    ELSE /\ id' = None
         /\ Finish("alm_delete", None, NoError,
                   <<Call("alm_delete", id, None, None)>>, None)
         /\ UNCHANGED <<lavec, xcoord, numbers, verbosity, kind_indices,
                        iconst, maxorder, prefix, need_transfer, cell>>

AlmDelete == AlmDeleteBody /\ UNCHANGED th

(***************************************************************************)
(* The context manager: `with ALM(...) as alm: body`.  th[1].pc is the     *)
(* position of the statement: "with_body" after __enter__ has returned,    *)
(* "with_done" after __exit__, "with_failed" when __enter__ raised (the    *)
(* body is skipped and __exit__ is not called).  th[1].err keeps how the   *)
(* body ended.                                                             *)
(***************************************************************************)
InBody == th[1].pc = "with_body"

\* __enter__: self.alm_new(); return self
WithEnter(r) ==
    /\ ~InBody
    /\ AlmNewBody(r)
    /\ th' = [th EXCEPT ![1].pc = IF last'.err = NoError THEN "with_body"
                                   ELSE "with_failed",
                        ![1].err = NoError]

\* An __exit__ that deletes only when the body has not raised.
WithExit_OnlyOnSuccess ==
    /\ InBody
    /\ IF last.err = NoError
       THEN AlmDeleteBody
       ELSE /\ Finish("alm_delete", None, NoError, <<>>, None)
            /\ UNCHANGED obj
    /\ th' = [th EXCEPT ![1].pc = "with_done", ![1].err = last.err]

\* __exit__: self.alm_delete().  It is called when the body has finished
\* or has raised; the last operation of the body tells which.
WithExit ==
    /\ InBody
    /\ AlmDeleteBody
    /\ th' = [th EXCEPT ![1].pc = "with_done", ![1].err = last.err]

\* A statement of the body: it runs when the statement before it has not
\* raised.
BodyRuns == InBody /\ last.err = NoError

(***************************************************************************)
(* suggest and optimize.                                                   *)
(***************************************************************************)
\* The irreducible coefficients of the orders 1..n the instance holds.
RECURSIVE EngIrredSum(_, _)
EngIrredSum(e, n) == IF n = 0 THEN 0 ELSE EngIrredSum(e, n - 1) + e.irred[n]

\* The training set handed to the instance has fewer samples than the
\* instance has irreducible coefficients.
RankDeficient(e) == e.ndata < EngIrredSum(e, MaxOrder)

\* The statuses the engine's optimize may answer with: 0 when the fit went
\* well, 1 otherwise; a dense fit of a rank-deficient training set is never
\* answered with 0.
OptimizeAnswers(solver) ==
    IF Live(eng, id) /\ solver = "dense" /\ RankDeficient(eng)
    THEN {1}
    ELSE {0, 1}

Suggest ==
    IF id = None
    THEN /\ Finish("suggest", None, ErrUninitialized, <<>>, None)
         /\ UNCHANGED <<obj, th>>
    ELSE LET t == TransferParameters(eng, id) IN
         /\ need_transfer' = t.need
         /\ kind_indices' = t.kinds
         /\ cell' = t.cell
         /\ IF t.err # NoError
            THEN Finish("suggest", None, t.err, t.calls, None)
            ELSE Finish("suggest", None, NoError,
                        t.calls \o <<Call("suggest", id, None, None)>>, None)
         /\ UNCHANGED <<id, lavec, xcoord, numbers, verbosity, iconst,
                        maxorder, prefix, th>>

\* A solver test that lets one more name through.
Solvers_WithCholesky == {"dense", "SimplicialLDLT", "cholesky"}

\* solver not in ['dense', 'SimplicialLDLT'] raises.
Solvers == {"dense", "SimplicialLDLT"}

\* An optimize that reports success whatever the engine answered.
OptimizeReturn_AlwaysConverged(info) == 0

\* info = alm.optimize(self._id, solver); return info
OptimizeReturn(info) == info

\* info is the status the engine's optimize answers with.
Optimize(solver, info) ==
    IF id = None
    THEN /\ Finish("optimize", solver, ErrUninitialized, <<>>, None)
         /\ UNCHANGED <<obj, th>>
    ELSE LET t == TransferParameters(eng, id) IN
         /\ need_transfer' = t.need
         /\ kind_indices' = t.kinds
         /\ cell' = t.cell
         /\ IF t.err # NoError
            THEN Finish("optimize", solver, t.err, t.calls, None)
            ELSE IF solver \notin Solvers
            THEN Finish("optimize", solver, ErrSolver, t.calls, None)
            ELSE Finish("optimize", solver, NoError,
                        t.calls \o <<Call("optimize", id, solver, info)>>,
                        Some(OptimizeReturn(info)))
         /\ UNCHANGED <<id, lavec, xcoord, numbers, verbosity, iconst,
                        maxorder, prefix, th>>

(***************************************************************************)
(* define.  cutoff_radii is modelled by its flattened entries (the code    *)
(* reads only their number before it reshapes them) and nbody by its       *)
(* entries; both may be None.                                              *)
(***************************************************************************)
\* A default that starts the limits at order + 0.
DefaultNbody_FromOne(mo) == [i \in 1..mo |-> i]

\* nbody = []; for i in range(maxorder): nbody.append(i + 2)
DefaultNbody(mo) == [i \in 1..mo |-> i + 1]

\* A length test that only refuses a sequence that is too long.
NbodyWrong_TooLongOnly(nbody, mo) == nbody # None /\ Len(Val(nbody)) > mo

\* len(nbody) != maxorder raises, for an nbody that is given.
NbodyWrong(nbody, mo) == nbody # None /\ Len(Val(nbody)) # mo

\* int(round(np.sqrt(n))) for an integer n >= 0.
RoundSqrt(n) ==
    IF n = 0 THEN 0 ELSE CHOOSE k \in 1..n : k * k - k < n /\ n <= k * k + k

\* A shape test without the test for a square number of entries per order.
CutoffShape_NoSquareTest(cutoff, mo) ==
    LET nelem == Len(cutoff)
        nkd == RoundSqrt(nelem \div mo)
    IN  IF (nelem \div mo) * mo # nelem THEN None
        ELSE Some(<<mo, nkd, nkd>>)

\* The shape cutoff_radii is reshaped to, or None when the code raises.
CutoffShape(cutoff, mo) ==
    LET nelem == Len(cutoff)
        nkd == RoundSqrt(nelem \div mo)
    IN  IF (nelem \div mo) * mo # nelem THEN None
        ELSE IF nkd * nkd - nelem \div mo # 0 THEN None
        ELSE Some(<<mo, nkd, nkd>>)

\* str.lower and str.capitalize on the basis names the model feeds in.
Lower(str) ==
    CASE str \in {"Lattice", "LATTICE", "lattice"} -> "lattice"
      [] str \in {"Cartesian", "CARTESIAN", "cartesian"} -> "cartesian"
      [] str \in {"Fractional", "fractional"} -> "fractional"
      [] OTHER -> str

Capitalize(str) ==
    CASE str \in {"Lattice", "LATTICE", "lattice"} -> "Lattice"
      [] str \in {"Cartesian", "CARTESIAN", "cartesian"} -> "Cartesian"
      [] str \in {"Fractional", "fractional"} -> "Fractional"
      [] OTHER -> str

\* A basis that is passed on as it was written.
FcBasis_AsGiven(basis) ==
    IF Lower(basis) \in {"lattice", "cartesian"} THEN basis
    ELSE "Lattice"

\* symmetrization_basis.lower() in ['lattice', 'cartesian'] gives
\* symmetrization_basis.capitalize(), anything else 'Lattice'.
FcBasis(basis) ==
    IF Lower(basis) \in {"lattice", "cartesian"} THEN Capitalize(basis)
    ELSE "Lattice"

\* A define that stops after alm.define.
DefineEngineCalls_NoGenerate(h, mo, nb, cut, fc_basis, irr) ==
    <<Call("define", h,
           [maxorder |-> mo, nbody |-> nb, cutoff |-> cut, basis |-> fc_basis],
           None)>>

\* alm.define(self._id, maxorder, nbody, _cutoff_radii, fc_basis) and
\* alm.generate_force_constant(self._id).
DefineEngineCalls(h, mo, nb, cut, fc_basis, irr) ==
    <<Call("define", h,
           [maxorder |-> mo, nbody |-> nb, cutoff |-> cut, basis |-> fc_basis],
           None),
      Call("generate_force_constant", h, None,
           [o \in Orders |-> IF o <= mo THEN irr[o] ELSE 0])>>

\* A define that assigns self._maxorder before it tests nbody and
\* cutoff_radii.
Define_RecordsOrderFirst(mo, cutoff, nbody, basis, irr) ==
    IF id = None
    THEN /\ Finish("define", [maxorder |-> mo, cutoff |-> cutoff,
                              nbody |-> nbody, basis |-> basis],
                   ErrUninitialized, <<>>, None)
         /\ UNCHANGED <<obj, th>>
    ELSE LET t == TransferParameters(eng, id)
             a == [maxorder |-> mo, cutoff |-> cutoff, nbody |-> nbody,
                   basis |-> basis]
             nb == IF nbody = None THEN DefaultNbody(mo) ELSE Val(nbody)
             shape == IF cutoff = None THEN None
                      ELSE CutoffShape(Val(cutoff), mo)
             cut == IF cutoff = None THEN None
                    ELSE Some([shape |-> Val(shape), data |-> Val(cutoff)])
         IN
         /\ need_transfer' = t.need
         /\ kind_indices' = t.kinds
         /\ cell' = t.cell
         /\ IF t.err # NoError
            THEN /\ Finish("define", a, t.err, t.calls, None)
                 /\ UNCHANGED maxorder
            ELSE IF NbodyWrong(nbody, mo)
            THEN /\ Finish("define", a, ErrNbody, t.calls, None)
                 /\ maxorder' = mo
            ELSE IF cutoff # None /\ shape = None
            THEN /\ Finish("define", a, ErrCutoff, t.calls, None)
                 /\ maxorder' = mo
            ELSE /\ maxorder' = mo
                 /\ Finish("define", a, NoError,
                       t.calls \o
                       DefineEngineCalls(id, mo, nb, cut, FcBasis(basis), irr),
                       None)
         /\ UNCHANGED <<id, lavec, xcoord, numbers, verbosity, iconst,
                        prefix, th>>

\* irr is the irreducible count per order the engine derives at
\* generate_force_constant.
Define(mo, cutoff, nbody, basis, irr) ==
    IF id = None
    THEN /\ Finish("define", [maxorder |-> mo, cutoff |-> cutoff,
                              nbody |-> nbody, basis |-> basis],
                   ErrUninitialized, <<>>, None)
         /\ UNCHANGED <<obj, th>>
    ELSE LET t == TransferParameters(eng, id)
             a == [maxorder |-> mo, cutoff |-> cutoff, nbody |-> nbody,
                   basis |-> basis]
             nb == IF nbody = None THEN DefaultNbody(mo) ELSE Val(nbody)
             shape == IF cutoff = None THEN None
                      ELSE CutoffShape(Val(cutoff), mo)
             cut == IF cutoff = None THEN None
                    ELSE Some([shape |-> Val(shape), data |-> Val(cutoff)])
         IN
         /\ need_transfer' = t.need
         /\ kind_indices' = t.kinds
         /\ cell' = t.cell
         /\ IF t.err # NoError
            THEN /\ Finish("define", a, t.err, t.calls, None)
                 /\ UNCHANGED maxorder
            ELSE IF NbodyWrong(nbody, mo)
            THEN /\ Finish("define", a, ErrNbody, t.calls, None)
                 /\ UNCHANGED maxorder
            ELSE IF cutoff # None /\ shape = None
            THEN /\ Finish("define", a, ErrCutoff, t.calls, None)
                 /\ UNCHANGED maxorder
            ELSE /\ maxorder' = mo
                 /\ Finish("define", a, NoError,
                       t.calls \o
                       DefineEngineCalls(id, mo, nb, cut, FcBasis(basis), irr),
                       None)
         /\ UNCHANGED <<id, lavec, xcoord, numbers, verbosity, iconst,
                        prefix, th>>

(***************************************************************************)
(* set_constraint.  There is no test of self._id here.                     *)
(***************************************************************************)
\* err is what the binding answers when it is handed a handle of None.
SetConstraint(translation, rotation, err) ==
    IF rotation = TRUE
    THEN /\ Finish("set_constraint",
                   [translation |-> translation, rotation |-> rotation],
                   ErrRaiseStr, <<>>, None)
         /\ UNCHANGED <<obj, th>>
    ELSE LET ic == IF translation = TRUE THEN 11 ELSE 10 IN
         /\ iconst' = ic
         /\ Finish("set_constraint",
                   [translation |-> translation, rotation |-> rotation],
                   IF id = None THEN err ELSE NoError,
                   <<Call("set_constraint_type", id, ic, None)>>, None)
         /\ UNCHANGED <<id, lavec, xcoord, numbers, verbosity, kind_indices,
                        maxorder, prefix, need_transfer, cell, th>>

(***************************************************************************)
(* The operations that pass values to the engine.                          *)
(***************************************************************************)
\* type(prefix) is str: a prefix is Some(string); any other value is None.
SetOutputFilenamePrefix(p) ==
    IF id = None
    THEN /\ Finish("output_filename_prefix", p, ErrUninitialized, <<>>, None)
         /\ UNCHANGED <<obj, th>>
    ELSE IF p # None
    THEN /\ prefix' = p
         /\ Finish("output_filename_prefix", p, NoError,
                   <<Call("set_output_filename_prefix", id, Val(p), None)>>,
                   None)
         /\ UNCHANGED <<id, lavec, xcoord, numbers, verbosity, kind_indices,
                        iconst, maxorder, need_transfer, cell, th>>
    ELSE /\ Finish("output_filename_prefix", p, NoError, <<>>, None)
         /\ UNCHANGED <<obj, th>>

optimizer_control_keys ==
    <<"linear_model", "use_sparse_solver", "maxnum_iteration",
      "tolerance_iteration", "output_frequency", "standardize",
      "displacement_normalization_factor", "debiase_after_l1opt",
      "cross_validation", "l1_alpha", "l1_alpha_min", "l1_alpha_max",
      "num_l1_alpha", "l1_ratio", "save_solution_path">>

KeySet == {optimizer_control_keys[i] : i \in 1..Len(optimizer_control_keys)}

\* str.lower on the option names the model feeds in.
KeyLower(k) ==
    CASE k = "L1_ALPHA" -> "l1_alpha"
      [] k = "Standardize" -> "standardize"
      [] k = "L1_Penalty" -> "l1_penalty"
      [] OTHER -> k

\* A set_optimizer_control that compares the given names as they are
\* written, without lowering them.
SetOptimizerControl_CaseSensitive(optcontrol) ==
    LET optctrl ==
            [i \in 1..Len(optimizer_control_keys) |->
                IF optimizer_control_keys[i] \in DOMAIN optcontrol
                THEN Some(optcontrol[optimizer_control_keys[i]])
                ELSE None]
    IN
    /\ IF id = None
       THEN Finish("set_optimizer_control", optcontrol, ErrUninitialized,
                   <<>>, None)
       ELSE IF \E k \in DOMAIN optcontrol : k \notin KeySet
       THEN Finish("set_optimizer_control", optcontrol,
                   "KeyError: not a valide key for optimizer control.",
                   <<>>, None)
       ELSE Finish("set_optimizer_control", optcontrol, NoError,
                   <<Call("set_optimizer_control", id, optctrl, None)>>, None)
    /\ UNCHANGED <<obj, th>>

\* optctrl is the list the engine answers get_optimizer_control with.
GetOptimizerControl(optctrl) ==
    /\ IF id = None
       THEN Finish("optimizer_control", None, ErrUninitialized, <<>>, None)
       ELSE Finish("optimizer_control", None, NoError,
                   <<Call("get_optimizer_control", id, None, optctrl)>>,
                   Some([k \in {optimizer_control_keys[i] :
                                 i \in 1..Len(optctrl)} |->
                          optctrl[CHOOSE i \in 1..Len(optctrl) :
                                    optimizer_control_keys[i] = k]]))
    /\ UNCHANGED <<obj, th>>

\* optcontrol is a dict: a function from the given option names to values.
\* The names differ after lowering in every dict the model feeds in.
SetOptimizerControl(optcontrol) ==
    LET optcontrol_l ==
            [kl \in {KeyLower(k) : k \in DOMAIN optcontrol} |->
                optcontrol[CHOOSE k \in DOMAIN optcontrol : KeyLower(k) = kl]]
        optctrl ==
            [i \in 1..Len(optimizer_control_keys) |->
                IF optimizer_control_keys[i] \in DOMAIN optcontrol_l
                THEN Some(optcontrol_l[optimizer_control_keys[i]])
                ELSE None]
    IN
    /\ IF id = None
       THEN Finish("set_optimizer_control", optcontrol, ErrUninitialized,
                   <<>>, None)
       ELSE IF \E k \in DOMAIN optcontrol : KeyLower(k) \notin KeySet
       THEN Finish("set_optimizer_control", optcontrol,
                   "KeyError: not a valide key for optimizer control.",
                   <<>>, None)
       ELSE Finish("set_optimizer_control", optcontrol, NoError,
                   <<Call("set_optimizer_control", id, optctrl, None)>>, None)
    /\ UNCHANGED <<obj, th>>

\* u and f are modelled by their shapes; ndim is the length of a shape.
SetTrainingData(u, f) ==
    /\ IF id = None
       THEN Finish("set_training_data", [u |-> u, f |-> f], ErrUninitialized,
                   <<>>, None)
       ELSE IF Len(u) # 3
       THEN Finish("set_training_data", [u |-> u, f |-> f],
                   "RuntimeError: Displacement array has to be three dimensions.",
                   <<>>, None)
       ELSE IF Len(f) # 3
       THEN Finish("set_training_data", [u |-> u, f |-> f],
                   "RuntimeError: Force array has to be three dimensions.",
                   <<>>, None)
       ELSE Finish("set_training_data", [u |-> u, f |-> f], NoError,
                   <<Call("set_training_data", id, [u |-> u, f |-> f], None)>>,
                   None)
    /\ UNCHANGED <<obj, th>>

\* alpha is the engine's answer.
GetCvL1Alpha(alpha) ==
    /\ IF id = None
       THEN Finish("get_cv_l1_alpha", None, ErrUninitialized, <<>>, None)
       ELSE Finish("get_cv_l1_alpha", None, NoError,
                   <<Call("get_cv_l1_alpha", id, None, alpha)>>, Some(alpha))
    /\ UNCHANGED <<obj, th>>

(***************************************************************************)
(* The queries.  None of them calls _transfer_parameters.  A result        *)
(* carries, as `structure`, the structure the engine instance holds when   *)
(* it answers: the one it last received through set_cell.                  *)
(***************************************************************************)
EngineStructure(h) == IF Live(eng, h) THEN eng.cell ELSE None

\* The numbers of pure translations the engine may answer with: a divisor
\* of the atom count of the structure it holds, 0 when it holds none.
EngNtrans(h) ==
    IF EngineStructure(h) = None THEN {0}
    ELSE {n \in 1..MaxAtoms : Len(Val(EngineStructure(h)).xcoord) % n = 0}

\* The engine's answer to get_number_of_irred_fc_elements(h, o).
IrredCount(h, o) == IF Live(eng, h) /\ o \in Orders THEN eng.irred[o] ELSE 0

IrredCall(h, o) ==
    Call("get_number_of_irred_fc_elements", h, o, IrredCount(h, o))

GetmapPrimitiveToSupercell(ntrans) ==
    /\ IF id = None
       THEN Finish("getmap_primitive_to_supercell", None, ErrUninitialized,
                   <<>>, None)
       ELSE LET size == Len(xcoord)
                c == <<Call("get_atom_mapping_by_pure_translations", id,
                            [size |-> size], ntrans)>>
            IN  IF ntrans = 0 \/ size % ntrans # 0
                THEN Finish("getmap_primitive_to_supercell", None,
                            "ValueError: cannot reshape array", c, None)
                ELSE Finish("getmap_primitive_to_supercell", None, NoError, c,
                            Some([shape |-> <<ntrans, size \div ntrans>>,
                                  structure |-> EngineStructure(id)]))
    /\ UNCHANGED <<obj, th>>

\* An order test that is off by one.
OrderTooLarge_OffByOne(fc_order) == fc_order > maxorder + 1

\* fc_order > self._maxorder raises.
OrderTooLarge(fc_order) == fc_order > maxorder

RECURSIVE SumTo(_, _)
SumTo(nums, n) == IF n = 0 THEN 0 ELSE SumTo(nums, n - 1) + nums[n]

BasisNames == <<"Cartesian", "Fractional">>

\* A loop that restarts pos at every pattern.
AllDisps_RestartEachGroup(nums, nbasis) ==
    [i \in 1..Len(nums) |->
        [j \in 1..nums[i] |->
            [row |-> j, basis |-> BasisNames[nbasis + 1]]]]

\* The list get_displacement_patterns builds from the engine's flat output:
\* group i takes the next nums[i] rows; row p of the engine is the entry p.
AllDisps(nums, nbasis) ==
    [i \in 1..Len(nums) |->
        [j \in 1..nums[i] |->
            [row |-> SumTo(nums, i - 1) + j, basis |-> BasisNames[nbasis + 1]]]]

\* nums and nbasis are the engine's answers: the number of displaced atoms
\* of each pattern and the basis of the directions.
GetDisplacementPatterns(fc_order, nums, nbasis) ==
    /\ IF id = None
       THEN Finish("get_displacement_patterns", fc_order, ErrUninitialized,
                   <<>>, None)
       ELSE IF OrderTooLarge(fc_order)
       THEN Finish("get_displacement_patterns", fc_order, ErrFcOrder, <<>>,
                   None)
       ELSE Finish("get_displacement_patterns", fc_order, NoError,
                   <<Call("get_number_of_displacement_patterns", id, fc_order,
                          Len(nums)),
                     Call("get_number_of_displaced_atoms", id, fc_order, nums),
                     Call("get_displacement_patterns", id,
                          [fc_order |-> fc_order, size |-> SumTo(nums, Len(nums))],
                          nbasis)>>,
                   Some([patterns |-> AllDisps(nums, nbasis),
                         structure |-> EngineStructure(id)]))
    /\ UNCHANGED <<obj, th>>

\* A length for mode 'all' without the factor ntrans.
FcLengthAll_NoTranslations(nfc, ntrans) == nfc

\* fc_length = self._get_number_of_fc_elements(fc_order) * ntrans
FcLengthAll(nfc, ntrans) == nfc * ntrans

\* nfc and ntrans are the engine's answers to get_number_of_fc_elements and
\* get_atom_mapping_by_pure_translations.
GetFc(fc_order, mode, nfc, ntrans) ==
    LET a == [fc_order |-> fc_order, mode |-> mode]
        out(n) == Some([values |-> n, indices |-> <<n, fc_order + 1>>,
                        structure |-> EngineStructure(id)])
    IN
    /\ IF id = None
       THEN Finish("get_fc", a, ErrUninitialized, <<>>, None)
       ELSE IF OrderTooLarge(fc_order)
       THEN Finish("get_fc", a, ErrFcOrder, <<>>, None)
       ELSE IF mode = "origin"
       THEN Finish("get_fc", a, NoError,
                   <<Call("get_number_of_fc_elements", id, fc_order, nfc),
                     Call("get_fc_origin", id,
                          [size |-> nfc, columns |-> fc_order + 1], None)>>,
                   out(nfc))
       ELSE IF mode = "irreducible" \/ mode = "irred"
       THEN Finish("get_fc", a, NoError,
                   <<IrredCall(id, fc_order),
                     Call("get_fc_irreducible", id,
                          [size |-> IrredCount(id, fc_order),
                           columns |-> fc_order + 1], None)>>,
                   out(IrredCount(id, fc_order)))
       ELSE IF mode = "all"
       THEN Finish("get_fc", a, NoError,
                   <<Call("get_atom_mapping_by_pure_translations", id,
                          [size |-> Len(xcoord)], ntrans),
                     Call("get_number_of_fc_elements", id, fc_order, nfc),
                     Call("get_fc_all", id,
                          [size |-> FcLengthAll(nfc, ntrans),
                           columns |-> fc_order + 1],
                          None)>>,
                   out(FcLengthAll(nfc, ntrans)))
       ELSE Finish("get_fc", a, ErrMode, <<>>, None)
    /\ UNCHANGED <<obj, th>>

(***************************************************************************)
(* set_fc and get_matrix_elements.  Each sums the irreducible counts of    *)
(* the orders 1..self._maxorder in a loop of its own.                      *)
(***************************************************************************)
RECURSIVE SumIrred(_, _)
SumIrred(h, n) == IF n <= 0 THEN 0 ELSE SumIrred(h, n - 1) + IrredCount(h, n)

IrredCalls(h, n) == [i \in 1..n |-> IrredCall(h, i)]

\* fc_length_irred of set_fc.
SetFcLength == SumIrred(id, maxorder)

\* A get_matrix_elements whose loop stops one order early.
MatrixFcLength_ShortLoop == SumIrred(id, maxorder - 1)

\* fc_length of get_matrix_elements.
MatrixFcLength == SumIrred(id, maxorder)

\* A set_fc that compares with the count of the highest order alone.
SetFcSizeOk_LastOrder(fc_in) == IrredCount(id, maxorder) = Len(fc_in)

\* fc_length_irred != len(fc_in) raises.
SetFcSizeOk(fc_in) == SetFcLength = Len(fc_in)

SetFc(fc_in) ==
    /\ IF id = None
       THEN Finish("set_fc", fc_in, ErrUninitialized, <<>>, None)
       ELSE IF ~SetFcSizeOk(fc_in)
       THEN Finish("set_fc", fc_in, ErrFcSize, IrredCalls(id, maxorder), None)
       ELSE Finish("set_fc", fc_in, NoError,
                   IrredCalls(id, maxorder) \o
                   <<Call("set_fc", id, fc_in, None)>>, None)
    /\ UNCHANGED <<obj, th>>

\* nrows is the engine's answer to get_nrows_amat.
GetMatrixElements(nrows) ==
    /\ IF id = None
       THEN Finish("get_matrix_elements", None, ErrUninitialized, <<>>, None)
       ELSE Finish("get_matrix_elements", None, NoError,
                   <<Call("get_nrows_amat", id, None, nrows)>> \o
                   IrredCalls(id, maxorder) \o
                   <<Call("get_matrix_elements", id,
                          [amat |-> nrows * MatrixFcLength, bvec |-> nrows],
                          None)>>,
                   Some([amat |-> <<nrows, MatrixFcLength>>, bvec |-> nrows,
                         structure |-> EngineStructure(id)]))
    /\ UNCHANGED <<obj, th>>

(***************************************************************************)
(* The sequential specification: one caller, one operation at a time.      *)
(***************************************************************************)
Threads == {1, 2}
Idle == [pc |-> "idle", mo |-> 1, val |-> <<>>, err |-> NoError]

\* ALM(lavec, xcoord, numbers, verbosity): the constructor checks nothing.
Init ==
    /\ id = None
    /\ cell = None
    /\ lavec \in Lavecs
    /\ xcoord \in XCoords
    /\ numbers \in Numbers
    /\ verbosity \in Verbosities
    /\ kind_indices = None
    /\ iconst = 11
    /\ maxorder = 1
    /\ prefix = None
    /\ need_transfer = TRUE
    /\ eng = FreshEngine
    /\ last = [op |-> "__init__", args |-> None, err |-> NoError,
               calls |-> <<>>, ret |-> None, pre_id |-> None,
               pre_stale |-> TRUE]
    /\ th = [t \in Threads |-> Idle]

\* The objects constructed with one lattice and one verbosity, and those
\* among them whose coordinates and species agree in number.
InitCubic == Init /\ lavec = "cubic" /\ verbosity = 0
InitMatched == InitCubic /\ Len(xcoord) = Len(numbers)

\* The arguments and engine answers the operations are run with.
SolverArgs == {"dense", "SimplicialLDLT", "cholesky"}
NbodyArgs == {None, Some(<<2>>)}
IrredAnswers == [Orders -> 1..MaxIrred]
OneIrred == [o \in Orders |-> 1]
PrefixArgs == {None, Some("alm")}
OptControlArgs == {<<>>, [k \in {"L1_ALPHA"} |-> 1], [k \in {"L1_Penalty"} |-> 1]}
ShapeArgs == {<<1, 2, 3>>, <<2, 3>>}
FcArgs == UNION {[1..n -> {0}] : n \in 0..MaxFcLen}
ModeArgs == {"origin", "irred", "all", "full"}
\* The engine's answers to get_number_of_displaced_atoms.
NumsAnswers == UNION {[1..n -> 1..MaxDisp] : n \in 0..MaxPatterns}
\* Values of symmetrization_basis: the two names in three spellings, the
\* name of another basis and the empty string.
BasisArgs ==
    {"Lattice", "LATTICE", "lattice", "Cartesian", "CARTESIAN", "cartesian",
     "Fractional", ""}
\* Option dictionaries: every choice of names among these four, three of
\* them recognized when lowered, with a value for each.
ControlNames == {"L1_ALPHA", "Standardize", "l1_ratio", "L1_Penalty"}
ControlDicts == UNION {[S -> {1, 2}] : S \in SUBSET ControlNames}
QueryOrders == 1..(MaxOrder + 1)
CutoffArgs == {None} \cup {Some([i \in 1..n |-> -1]) : n \in 0..MaxCutoffLen}
NbodyLists == {None} \cup {Some([i \in 1..n |-> 2]) : n \in 0..(MaxOrder + 1)}
\* Shapes of displacement and force arrays: (samples, atoms, 3), and one
\* array of two dimensions.
TrainShapes ==
    {<<n, a, 3>> : n \in 0..MaxSamples, a \in 1..MaxAtoms} \cup {<<1, 3>>}

(***************************************************************************)
(* Spec: the life cycle of one object.  The setters, alm_new, alm_delete,  *)
(* the three operations that transfer the structure, and the queries.      *)
(* The operations left out change no field of the object and nothing the   *)
(* engine holds.                                                           *)
(***************************************************************************)
Next ==
    \/ \E v \in Lavecs : SetLavec(v)
    \/ \E v \in XCoords : SetXcoord(v)
    \/ \E v \in Numbers : SetNumbers(v)
    \/ \E v \in Verbosities : SetVerbosity(v)
    \/ AlmNew(0)
    \/ AlmDelete
    \/ Suggest
    \/ \E sv \in {"dense", "cholesky"} :
          \E info \in OptimizeAnswers(sv) : Optimize(sv, info)
    \/ \E mo \in Orders, nb \in NbodyArgs :
          Define(mo, None, nb, "Lattice", OneIrred)
    \/ \E n \in EngNtrans(id) : GetmapPrimitiveToSupercell(n)
    \/ \E o \in QueryOrders : GetDisplacementPatterns(o, <<2, 1>>, 0)
    \/ \E o \in QueryOrders, m \in {"origin", "all"}, n \in EngNtrans(id) :
          GetFc(o, m, 1, n)
    \/ GetMatrixElements(1)

Spec == Init /\ [][Next]_vars

(***************************************************************************)
(* SpecOps: every public operation, on an object whose structure is the    *)
(* one it was constructed with.                                            *)
(***************************************************************************)
NextOps ==
    \/ AlmNew(0)
    \/ AlmDelete
    \/ Suggest
    \/ \E sv \in {"dense", "cholesky"} :
          \E info \in OptimizeAnswers(sv) : Optimize(sv, info)
    \/ \E mo \in Orders : Define(mo, None, None, "Lattice", OneIrred)
    \/ \E tr \in BOOLEAN, ro \in BOOLEAN, e \in {NoError, ErrBindingArg} :
          SetConstraint(tr, ro, e)
    \/ \E p \in PrefixArgs : SetOutputFilenamePrefix(p)
    \/ GetOptimizerControl(<<>>)
    \/ \E oc \in OptControlArgs : SetOptimizerControl(oc)
    \/ \E u \in ShapeArgs : SetTrainingData(u, <<1, 2, 3>>)
    \/ GetCvL1Alpha(0)
    \/ \E n \in EngNtrans(id) : GetmapPrimitiveToSupercell(n)
    \/ \E o \in QueryOrders : GetDisplacementPatterns(o, <<2, 1>>, 0)
    \/ \E o \in QueryOrders, m \in {"origin", "full"}, n \in EngNtrans(id) :
          GetFc(o, m, 1, n)
    \/ \E fc \in {<<>>, <<0>>} : SetFc(fc)
    \/ GetMatrixElements(1)

SpecOps == Init /\ [][NextOps]_vars

(***************************************************************************)
(* SpecFc: the order definition, set_fc and get_matrix_elements, with      *)
(* every irreducible count the engine may derive.                          *)
(***************************************************************************)
NextFc ==
    \/ AlmNew(0)
    \/ AlmDelete
    \/ \E mo \in Orders, irr \in IrredAnswers :
          Define(mo, None, None, "Lattice", irr)
    \/ \E fc \in FcArgs : SetFc(fc)
    \/ \E nrows \in 0..MaxRows : GetMatrixElements(nrows)

SpecFc == Init /\ [][NextFc]_vars

(***************************************************************************)
(* SpecConfig: optimize and define with every solver name, cutoff_radii    *)
(* and nbody of the argument sets, on objects that are stale or not.       *)
(***************************************************************************)
NextConfig ==
    \/ AlmNew(0)
    \/ AlmDelete
    \/ \E v \in Verbosities : SetVerbosity(v)
    \/ \E sv \in SolverArgs :
          \E info \in OptimizeAnswers(sv) : Optimize(sv, info)
    \/ \E mo \in Orders, cut \in CutoffArgs, nb \in NbodyLists :
          Define(mo, cut, nb, "Lattice", OneIrred)

SpecConfig == InitCubic /\ [][NextConfig]_vars

(***************************************************************************)
(* SpecFit: the order definition, the training data and the fit.           *)
(***************************************************************************)
NextFit ==
    \/ AlmNew(0)
    \/ AlmDelete
    \/ \E mo \in Orders, irr \in IrredAnswers :
          Define(mo, None, None, "Lattice", irr)
    \/ \E u \in TrainShapes, f \in {<<1, 1, 3>>, <<1, 3>>} :
          SetTrainingData(u, u) \/ SetTrainingData(u, f)
    \/ \E sv \in Solvers : \E info \in OptimizeAnswers(sv) : Optimize(sv, info)

SpecFit == InitMatched /\ [][NextFit]_vars

(***************************************************************************)
(* SpecWith: the object used in with statements, as in the example         *)
(* Si_suggest2.py.  The body is any sequence of statements on the object   *)
(* and ends when it is left or when a statement raises.                    *)
(***************************************************************************)
NextWith ==
    \/ \E r \in {0, -1} : WithEnter(r)
    \/ BodyRuns /\ Suggest
    \/ BodyRuns /\ \E mo \in Orders : Define(mo, None, None, "Lattice", OneIrred)
    \/ BodyRuns /\ \E v \in Numbers : SetNumbers(v)
    \/ BodyRuns /\ \E fc \in {<<>>, <<0>>} : SetFc(fc)
    \/ BodyRuns /\ AlmDelete
    \/ BodyRuns /\ AlmNew(0)
    \/ WithExit

SpecWith == Init /\ [][NextWith]_vars

(***************************************************************************)
(* SpecControl: the optimizer options.                                     *)
(***************************************************************************)
NextControl ==
    \/ AlmNew(0)
    \/ AlmDelete
    \/ \E oc \in ControlDicts : SetOptimizerControl(oc)
    \/ GetOptimizerControl([i \in 1..Len(optimizer_control_keys) |-> 0])

SpecControl == Init /\ [][NextControl]_vars

(***************************************************************************)
(* SpecQuery: get_fc and get_displacement_patterns with every answer of    *)
(* the engine.                                                             *)
(***************************************************************************)
NextQuery ==
    \/ AlmNew(0)
    \/ AlmDelete
    \/ \E mo \in Orders : Define(mo, None, None, "Lattice", OneIrred)
    \/ \E o \in QueryOrders, m \in ModeArgs, nfc \in 0..MaxFc,
           n \in EngNtrans(id) : GetFc(o, m, nfc, n)
    \/ \E o \in QueryOrders, nums \in NumsAnswers, nbasis \in {0, 1} :
          GetDisplacementPatterns(o, nums, nbasis)

SpecQuery == InitMatched /\ [][NextQuery]_vars

(***************************************************************************)
(* SpecLife: the native instance over the life of one object.  The engine  *)
(* answers alm_new with the handle 0 or, when every slot is taken by other *)
(* objects, with -1.                                                       *)
(***************************************************************************)
NextLife ==
    \/ \E r \in {0, -1} : AlmNew(r)
    \/ AlmDelete
    \/ \E v \in Numbers : SetNumbers(v)
    \/ \E v \in Verbosities : SetVerbosity(v)
    \/ Suggest
    \/ GetCvL1Alpha(0)

SpecLife == InitCubic /\ [][NextLife]_vars

(***************************************************************************)
(* SpecBasis: define with every symmetrization basis of the argument set.  *)
(***************************************************************************)
NextBasis ==
    \/ AlmNew(0)
    \/ AlmDelete
    \/ \E v \in Verbosities : SetVerbosity(v)
    \/ \E mo \in Orders, b \in BasisArgs : Define(mo, None, None, b, OneIrred)

SpecBasis == InitCubic /\ [][NextBasis]_vars

(***************************************************************************)
(* SpecThreads: two threads on one object.  The class holds no lock and no *)
(* in-flight flag, and the interpreter may switch threads between any two  *)
(* statements, so define and the numbers setter are split at their         *)
(* statements: th[t].pc is the statement thread t executes next.           *)
(***************************************************************************)
Goto(t, pc) == th' = [th EXCEPT ![t].pc = pc]
Fail(t, err) == th' = [th EXCEPT ![t].pc = "idle", ![t].err = err]

\* A thread calls define(mo).
ThDefineCall(t, mo) ==
    /\ th[t].pc = "idle"
    /\ th' = [th EXCEPT ![t] = [pc |-> "define_check", mo |-> mo,
                                val |-> <<>>, err |-> NoError]]
    /\ UNCHANGED <<obj, eng, last>>

\* if self._id is None: self._show_error_message()
ThDefineCheck(t) ==
    /\ th[t].pc = "define_check"
    /\ IF id = None THEN Fail(t, ErrUninitialized)
       ELSE Goto(t, "transfer_test")
    /\ UNCHANGED <<obj, eng, last>>

\* if self._need_transfer:
ThTransferTest(t) ==
    /\ th[t].pc = "transfer_test"
    /\ IF need_transfer THEN Goto(t, "set_cell") ELSE Goto(t, "set_maxorder")
    /\ UNCHANGED <<obj, eng, last>>

\* self._set_cell()
ThSetCell(t) ==
    /\ th[t].pc = "set_cell"
    /\ IF id = None
       THEN Fail(t, ErrUninitialized) /\ UNCHANGED <<kind_indices, cell, eng>>
       ELSE IF ~CountsAgree
       THEN Fail(t, ErrCounts) /\ UNCHANGED <<kind_indices, cell, eng>>
       ELSE /\ kind_indices' = Some(EngineKinds(eng, id, numbers))
            /\ eng' = EngRun(eng, <<Call("set_cell", id, CurrentCell, None)>>)
            /\ cell' = Some(CurrentCell)
            /\ Goto(t, "set_verbosity")
    /\ UNCHANGED <<id, lavec, xcoord, numbers, verbosity, iconst, maxorder,
                   prefix, need_transfer, last>>

\* self._set_verbosity()
ThSetVerbosity(t) ==
    /\ th[t].pc = "set_verbosity"
    /\ IF id = None
       THEN Fail(t, ErrUninitialized) /\ UNCHANGED eng
       ELSE /\ eng' = EngRun(eng, <<Call("set_verbosity", id, verbosity, None)>>)
            /\ Goto(t, "clear_flag")
    /\ UNCHANGED <<obj, last>>

\* self._need_transfer = False
ThClearFlag(t) ==
    /\ th[t].pc = "clear_flag"
    /\ need_transfer' = FALSE
    /\ Goto(t, "set_maxorder")
    /\ UNCHANGED <<id, lavec, xcoord, numbers, verbosity, kind_indices, iconst,
                   maxorder, prefix, cell, eng, last>>

\* self._maxorder = maxorder (nbody and cutoff_radii are None)
ThSetMaxorder(t) ==
    /\ th[t].pc = "set_maxorder"
    /\ maxorder' = th[t].mo
    /\ Goto(t, "engine_define")
    /\ UNCHANGED <<id, lavec, xcoord, numbers, verbosity, kind_indices, iconst,
                   prefix, need_transfer, cell, eng, last>>

\* alm.define(self._id, maxorder, nbody, None, 'Lattice')
ThEngineDefine(t) ==
    /\ th[t].pc = "engine_define"
    /\ eng' = EngRun(eng, <<Call("define", id,
                                 [maxorder |-> th[t].mo,
                                  nbody |-> DefaultNbody(th[t].mo),
                                  cutoff |-> None, basis |-> "Lattice"],
                                 None)>>)
    /\ Goto(t, "generate")
    /\ UNCHANGED <<obj, last>>

\* alm.generate_force_constant(self._id)
ThGenerate(t) ==
    /\ th[t].pc = "generate"
    /\ eng' = EngRun(eng, <<Call("generate_force_constant", id, None, OneIrred)>>)
    /\ Goto(t, "idle")
    /\ UNCHANGED <<obj, last>>

\* A thread assigns numbers: self._need_transfer = True ...
ThNumbersCall(t, v) ==
    /\ th[t].pc = "idle"
    /\ need_transfer' = TRUE
    /\ th' = [th EXCEPT ![t] = [pc |-> "store_numbers", mo |-> 1,
                                val |-> v, err |-> NoError]]
    /\ UNCHANGED <<id, lavec, xcoord, numbers, verbosity, kind_indices, iconst,
                   maxorder, prefix, cell, eng, last>>

\* ... self._numbers = np.array(numbers)
ThStoreNumbers(t) ==
    /\ th[t].pc = "store_numbers"
    /\ numbers' = th[t].val
    /\ Goto(t, "idle")
    /\ UNCHANGED <<id, lavec, xcoord, verbosity, kind_indices, iconst,
                   maxorder, prefix, need_transfer, cell, eng, last>>

\* alm_new is called before the threads start.
ThAlmNew ==
    /\ \A t \in Threads : th[t] = Idle
    /\ id = None
    /\ AlmNew(0)

NextThreads ==
    \/ ThAlmNew
    \/ \E t \in Threads, mo \in Orders : ThDefineCall(t, mo)
    \/ \E t \in Threads : ThDefineCheck(t)
    \/ \E t \in Threads : ThTransferTest(t)
    \/ \E t \in Threads : ThSetCell(t)
    \/ \E t \in Threads : ThSetVerbosity(t)
    \/ \E t \in Threads : ThClearFlag(t)
    \/ \E t \in Threads : ThSetMaxorder(t)
    \/ \E t \in Threads : ThEngineDefine(t)
    \/ \E t \in Threads : ThGenerate(t)
    \/ \E t \in Threads, v \in Numbers : ThNumbersCall(t, v)
    \/ \E t \in Threads : ThStoreNumbers(t)

SpecThreads == Init /\ [][NextThreads]_vars

(***************************************************************************)
(* The properties.                                                         *)
(***************************************************************************)
Initialized == last.pre_id # None
TransferCalls(calls) ==
    {i \in 1..Len(calls) : calls[i].f \in {"set_cell", "set_verbosity"}}
Structure == [lavec |-> lavec, xcoord |-> xcoord, numbers |-> numbers]

EngineOps ==
    {"suggest", "optimize", "define", "set_constraint", "set_training_data",
     "set_optimizer_control", "optimizer_control", "output_filename_prefix",
     "getmap_primitive_to_supercell", "get_displacement_patterns", "get_fc",
     "set_fc", "get_matrix_elements", "get_cv_l1_alpha"}

\* C1: every public operation that reaches the engine, invoked while the
\* object holds no native instance, fails with the uninitialized-instance
\* error and issues no engine call.  (Violated by set_constraint, which
\* never tests self._id.)
C1_UninitializedOperationFails ==
    (last.op \in EngineOps /\ last.pre_id = None)
        => (last.err = ErrUninitialized /\ last.calls = <<>>)

\* The same for every operation of the list but set_constraint; this holds.
C1_AllButSetConstraint ==
    (last.op \in EngineOps \ {"set_constraint"} /\ last.pre_id = None)
        => (last.err = ErrUninitialized /\ last.calls = <<>>)

\* C2: get_displacement_patterns(order) and get_fc(order, mode) with order
\* above the recorded maxorder fail before any engine call and return
\* nothing.
C2_OrderAboveMaxorderFails ==
    /\ (last.op = "get_displacement_patterns" /\ last.args > maxorder)
          => (last.err # NoError /\ last.calls = <<>> /\ last.ret = None)
    /\ (last.op = "get_fc" /\ last.args.fc_order > maxorder)
          => (last.err # NoError /\ last.calls = <<>> /\ last.ret = None)
    /\ (last.op \in {"get_displacement_patterns", "get_fc"} /\ Initialized
          /\ last.err = ErrFcOrder)
          => (IF last.op = "get_fc" THEN last.args.fc_order ELSE last.args)
               > maxorder

\* An initialized object defined to maxorder 1 and asked for the patterns
\* of order 2.
C2_Witness ==
    /\ last.op = "get_displacement_patterns"
    /\ last.args = 2
    /\ Initialized
    /\ maxorder = 1
    /\ eng.maxorder = Some(1)
    /\ last.err = ErrFcOrder

QueryOps ==
    {"getmap_primitive_to_supercell", "get_displacement_patterns", "get_fc",
     "get_matrix_elements"}

\* C3: after the structure is reassigned no later query returns a result
\* derived from the previous structure: when the object holds a structure
\* with as many coordinates as species, the structure behind every result
\* of a query is that one.  (Violated: the queries never transfer.)
C3_NoResultFromPreviousStructure ==
    (last.op \in QueryOps /\ last.err = NoError
        /\ Len(xcoord) = Len(numbers)
        /\ Val(last.ret).structure # None)
        => Val(last.ret).structure = Some(Structure)

\* C4: an assignment marks the object stale; suggest, optimize and define
\* on an initialized stale object send the current structure and verbosity
\* first, before any call of their own, and on an object that is not stale
\* they send neither.
C4_TransferBeforeEngineCall ==
    /\ last.op \in {"lavec", "xcoord", "numbers", "verbosity"} => need_transfer
    /\ (last.op \in {"suggest", "optimize", "define"} /\ Initialized) =>
          /\ (last.pre_stale /\ Len(xcoord) = Len(numbers)) =>
                /\ TransferCalls(last.calls) = {1, 2}
                /\ last.calls[1] = Call("set_cell", id, Structure, None)
                /\ last.calls[2] = Call("set_verbosity", id, verbosity, None)
                /\ ~need_transfer
          /\ (last.pre_stale /\ Len(xcoord) # Len(numbers)) =>
                last.calls = <<>>
          /\ ~last.pre_stale => TransferCalls(last.calls) = {}

\* suggest found the object stale, transferred and then called the engine.
C4_Witness ==
    /\ last.op = "suggest"
    /\ Initialized
    /\ last.pre_stale
    /\ Fs(last.calls) = <<"set_cell", "set_verbosity", "suggest">>
    /\ eng.cell = Some(Structure)
    /\ eng.verbosity = Some(verbosity)

\* define on an object that is not stale: no transfer.
C4_WitnessFresh ==
    /\ last.op = "define"
    /\ Initialized
    /\ ~last.pre_stale
    /\ Fs(last.calls) = <<"define", "generate_force_constant">>

\* C6: the error for a structure whose numbers of coordinates and of
\* species differ is raised by the constructor or the setter that created
\* the mismatch, never by a later operation.  (Violated: _set_cell raises
\* it at the next transfer.)
C6_MismatchRaisedWhereIntroduced ==
    last.err = ErrCounts => last.op \in {"__init__", "xcoord", "numbers"}

\* The constructor and the setters accept a mismatch; this holds.
C6_SettersNeverRaise ==
    last.op \in {"__init__", "lavec", "xcoord", "numbers", "verbosity"}
        => last.err = NoError

\* C7: the engine only ever receives structures with as many coordinates
\* as species; a transfer that finds the numbers different raises, calls
\* neither set_cell nor anything after it, and leaves the object stale.
C7_EngineNeverReceivesMismatch ==
    /\ eng.cell # None =>
          Len(Val(eng.cell).xcoord) = Len(Val(eng.cell).numbers)
    /\ \A i \in 1..Len(last.calls) :
          last.calls[i].f = "set_cell" =>
              Len(last.calls[i].arg.xcoord) = Len(last.calls[i].arg.numbers)
    /\ (/\ last.pre_stale
        /\ Len(xcoord) # Len(numbers)
        /\ \/ last.op \in {"suggest", "optimize", "define"} /\ Initialized
           \/ last.op = "alm_new" /\ ~Initialized) =>
          /\ last.err = ErrCounts
          /\ last.calls = IF last.op = "alm_new"
                          THEN <<Call("alm_new", None, None, Val(id))>>
                          ELSE <<>>
          /\ need_transfer

\* suggest on an initialized object whose numbers do not agree.
C7_Witness ==
    /\ last.op = "suggest"
    /\ Initialized
    /\ Len(xcoord) # Len(numbers)
    /\ last.err = ErrCounts
    /\ need_transfer
    /\ eng.cell # None

\* The sum of the irreducible counts the engine holds for the orders 1..n.
RECURSIVE IrredTotal(_)
IrredTotal(n) == IF n = 0 THEN 0 ELSE IrredTotal(n - 1) + eng.irred[n]

\* C8: set_fc compares the length of the given vector with the sum of the
\* irreducible counts of the orders 1..maxorder; on a mismatch it fails and
\* the engine's set_fc is not called, on a match the vector is passed on.
C8_SetFcValidatesLength ==
    (last.op = "set_fc" /\ Initialized) =>
        IF Len(last.args) # IrredTotal(maxorder)
        THEN /\ last.err = ErrFcSize
             /\ ~Issued(last.calls, "set_fc")
        ELSE /\ last.err = NoError
             /\ last.calls[Len(last.calls)] = Call("set_fc", id, last.args, None)
             /\ Cardinality({i \in 1..Len(last.calls) :
                               last.calls[i].f = "set_fc"}) = 1

\* A vector of three entries accepted for two orders.
C8_Witness ==
    /\ last.op = "set_fc"
    /\ last.err = NoError
    /\ maxorder = 2
    /\ Len(last.args) = 3
    /\ Issued(last.calls, "set_fc")

\* A vector as long as the count of order 2 alone, rejected.
C8_WitnessRejected ==
    /\ last.op = "set_fc"
    /\ last.err = ErrFcSize
    /\ maxorder = 2
    /\ Len(last.args) = eng.irred[2]

\* C9: the vector length set_fc accepts is the number of columns of the
\* matrix get_matrix_elements returns, the sum of the irreducible counts
\* of the orders 1..maxorder asked for in increasing order, and the matrix
\* has as many rows as the target vector has entries.
C9_MatrixColumnsMatchSetFc ==
    (last.op = "get_matrix_elements" /\ last.err = NoError) =>
        LET r == Val(last.ret)
            asked == SelectSeq(last.calls,
                        LAMBDA c : c.f = "get_number_of_irred_fc_elements")
        IN  /\ \A n \in 0..(MaxOrder * MaxIrred) :
                  SetFcSizeOk([i \in 1..n |-> 0]) <=> n = r.amat[2]
            /\ r.amat[2] = IrredTotal(maxorder)
            /\ [i \in 1..Len(asked) |-> asked[i].arg] = [i \in 1..maxorder |-> i]
            /\ r.amat[1] = r.bvec

\* A matrix of two rows and three columns for two orders.
C9_Witness ==
    /\ last.op = "get_matrix_elements"
    /\ last.err = NoError
    /\ maxorder = 2
    /\ Val(last.ret).amat = <<2, 3>>
    /\ Val(last.ret).bvec = 2

\* C10: set_constraint with rotation=True, here on an initialized object,
\* fails with an error that says rotational invariance is unsupported and
\* sends nothing to the engine.  (Violated: the statement raises a str, so
\* the error is Python's TypeError about the raise itself.)
C10_RotationFailsAsUnsupported ==
    (last.op = "set_constraint" /\ last.args.rotation = TRUE /\ Initialized) =>
        /\ last.err = ErrRotation
        /\ last.calls = <<>>

\* The call does fail and sends nothing to the engine; this holds.
C10_RotationSendsNothing ==
    (last.op = "set_constraint" /\ last.args.rotation = TRUE) =>
        /\ last.err # NoError
        /\ last.calls = <<>>

\* The call leaves the recorded constraint type as it was; this holds.
C10_RotationKeepsIconst ==
    [][(last'.op = "set_constraint" /\ last'.args.rotation = TRUE)
        => iconst' = iconst]_vars

\* Thread t is inside define, past its test of the handle.
InDefine(t) ==
    th[t].pc \in {"transfer_test", "set_cell", "set_verbosity", "clear_flag",
                  "set_maxorder", "engine_define", "generate"}
\* Thread t is inside the assignment of numbers.
InAssignment(t) == th[t].pc = "store_numbers"

\* C5: at most one derivation pipeline is in flight on an object: while a
\* thread is inside define, past its test of the handle, no other thread
\* is inside define or inside an assignment of the structure.  (Violated:
\* nothing in the class keeps a second thread out.)
C5_OnePipelineInFlight ==
    \A t1, t2 \in Threads :
        t1 # t2 => ~(InDefine(t1) /\ (InDefine(t2) \/ InAssignment(t2)))

\* The engine's optimize call of the last operation, if there is one.
OptimizeCalls == SelectSeq(last.calls, LAMBDA c : c.f = "optimize")

\* C11: on an initialized object, optimize with a solver name other than
\* 'dense' and 'SimplicialLDLT' fails and never calls the engine's optimize;
\* the error is the unsupported-solver error unless the transfer of a stale
\* structure has already failed.  With one of the two names and a transfer
\* that succeeds, the engine's optimize is called once, last, with that
\* name, and the status it answers is what optimize returns.
C11_SolverValidated ==
    (last.op = "optimize" /\ Initialized) =>
        IF last.args \notin {"dense", "SimplicialLDLT"}
        THEN /\ last.err \in {ErrSolver, ErrCounts}
             /\ last.err = ErrCounts => (last.pre_stale /\ Len(xcoord) # Len(numbers))
             /\ OptimizeCalls = <<>>
             /\ last.ret = None
        ELSE IF last.pre_stale /\ Len(xcoord) # Len(numbers)
        THEN last.err = ErrCounts /\ OptimizeCalls = <<>>
        ELSE /\ last.err = NoError
             /\ Len(OptimizeCalls) = 1
             /\ last.calls[Len(last.calls)].f = "optimize"
             /\ last.calls[Len(last.calls)].arg = last.args
             /\ last.calls[Len(last.calls)].id = id
             /\ last.ret = Some(last.calls[Len(last.calls)].ret)

\* optimize('cholesky') on an initialized object whose structure is sent.
C11_Witness ==
    /\ last.op = "optimize"
    /\ last.args = "cholesky"
    /\ Initialized
    /\ last.err = ErrSolver
    /\ eng.cell = Some(Structure)

\* optimize('SimplicialLDLT') returning the engine's status 1.
C11_WitnessStatus ==
    /\ last.op = "optimize"
    /\ last.args = "SimplicialLDLT"
    /\ last.err = NoError
    /\ last.ret = Some(1)

\* The engine's define call of the last operation, if there is one.
DefineCalls == SelectSeq(last.calls, LAMBDA c : c.f = "define")

\* The last operation found the object initialized and either not stale or
\* with a structure the transfer accepts.
TransferPassed ==
    Initialized /\ (last.pre_stale => Len(xcoord) = Len(numbers))

\* C12: define with an nbody whose length differs from maxorder fails,
\* calls neither the engine's define nor generate_force_constant, and
\* leaves the recorded maxorder as it was; when the object is initialized
\* and the transfer has passed, the error is the nbody-size error.
C12_NbodyLengthChecked ==
    [][(/\ last'.op = "define"
        /\ last'.args.nbody # None
        /\ Len(Val(last'.args.nbody)) # last'.args.maxorder) =>
          /\ last'.err # NoError
          /\ ~Issued(last'.calls, "define")
          /\ ~Issued(last'.calls, "generate_force_constant")
          /\ maxorder' = maxorder
          /\ eng'.maxorder = eng.maxorder
          /\ TransferPassed' => last'.err = ErrNbody]_vars

\* define(2, nbody of one entry) on an object recorded at maxorder 1 and
\* not stale.
C12_Witness ==
    /\ last.op = "define"
    /\ last.args.maxorder = 2
    /\ last.args.nbody = Some(<<2>>)
    /\ Initialized
    /\ ~last.pre_stale
    /\ last.err = ErrNbody
    /\ maxorder = 1

\* C13: a define without nbody that reaches the engine passes it, as
\* nbody, the sequence 2, 3, ..., maxorder + 1 of length maxorder.
C13_DefaultNbodyPassed ==
    (last.op = "define" /\ last.args.nbody = None /\ last.err = NoError) =>
        /\ Len(DefineCalls) = 1
        /\ Len(DefineCalls[1].arg.nbody) = last.args.maxorder
        /\ \A o \in 1..last.args.maxorder : DefineCalls[1].arg.nbody[o] = o + 1

\* define(2) without nbody: the engine receives <<2, 3>>.
C13_Witness ==
    /\ last.op = "define"
    /\ last.args.maxorder = 2
    /\ last.args.nbody = None
    /\ last.err = NoError
    /\ DefineCalls[1].arg.nbody = <<2, 3>>
    /\ eng.maxorder = Some(2)

\* C14: on an initialized object whose transfer has passed and with an
\* nbody that is accepted, define with a cutoff_radii of n entries succeeds
\* exactly when n = maxorder * K * K for some integer K, and then hands the
\* engine the entries in the shape (maxorder, K, K); with any other n it
\* fails with the cutoff-shape error, does not call the engine's define
\* and leaves the recorded maxorder as it was.
C14_CutoffShapeChecked ==
    [][(/\ last'.op = "define"
        /\ last'.args.cutoff # None
        /\ TransferPassed'
        /\ last'.args.nbody # None =>
              Len(Val(last'.args.nbody)) = last'.args.maxorder) =>
          LET mo == last'.args.maxorder
              n == Len(Val(last'.args.cutoff))
              Ks == {K \in 0..n : n = mo * K * K}
          IN  IF Ks # {}
              THEN /\ last'.err = NoError
                   /\ Len(SelectSeq(last'.calls, LAMBDA c : c.f = "define")) = 1
                   /\ \E K \in Ks :
                        SelectSeq(last'.calls,
                                  LAMBDA c : c.f = "define")[1].arg.cutoff =
                            Some([shape |-> <<mo, K, K>>,
                                  data |-> Val(last'.args.cutoff)])
                   /\ maxorder' = mo
              ELSE /\ last'.err = ErrCutoff
                   /\ ~Issued(last'.calls, "define")
                   /\ maxorder' = maxorder]_vars

\* define(2, [-1, -1]) as in the example: two entries in the shape (2, 1, 1).
C14_Witness ==
    /\ last.op = "define"
    /\ last.args.maxorder = 2
    /\ last.args.cutoff = Some(<<-1, -1>>)
    /\ last.err = NoError
    /\ DefineCalls[1].arg.cutoff = Some([shape |-> <<2, 1, 1>>, data |-> <<-1, -1>>])

\* define(2, six entries) on an object recorded at maxorder 1: three per
\* order is not a square, the call fails and maxorder stays 1.
C14_WitnessRejected ==
    /\ last.op = "define"
    /\ last.args.maxorder = 2
    /\ last.args.cutoff # None
    /\ Len(Val(last.args.cutoff)) = 6
    /\ Initialized
    /\ last.err = ErrCutoff
    /\ maxorder = 1

\* The arrays u and f of set_training_data do not both have the shape
\* (samples, atoms of the structure, 3).
ShapeMismatch(u, f) ==
    \/ Len(u) # 3
    \/ Len(f) # 3
    \/ u # f
    \/ u[2] # Len(xcoord)
    \/ u[3] # 3

\* C15: set_training_data with arrays that do not match the atom count of
\* the structure or the shape (samples, atoms, 3), or that differ from each
\* other in shape, fails and hands the engine no training data; stated for
\* an initialized object whose engine holds the current structure.
\* (Violated: only the number of dimensions of each array is tested.)
C15_TrainingDataValidated ==
    (/\ last.op = "set_training_data"
     /\ Initialized
     /\ eng.cell = Some(Structure)
     /\ ShapeMismatch(last.args.u, last.args.f)) =>
        /\ last.err # NoError
        /\ ~Issued(last.calls, "set_training_data")

\* An array that does not have three dimensions is refused; this holds.
C15_DimensionsChecked ==
    (/\ last.op = "set_training_data"
     /\ Len(last.args.u) # 3 \/ Len(last.args.f) # 3) =>
        /\ last.err # NoError
        /\ last.calls = <<>>

C20_WitnessConverged ==
    /\ last.op = "optimize"
    /\ last.args = "dense"
    /\ EngIrredSum(eng, MaxOrder) = 3
    /\ eng.ndata = 3
    /\ last.ret = Some(0)

\* C16: in a with statement whose __enter__ has returned, the entry has
\* created a native instance for an object that held none; __exit__ runs
\* alm_delete whether the body finished or raised, which deletes the
\* instance the object holds with one engine call; no alm_delete is ever
\* issued for a handle that is not live; and after the block the object
\* holds no handle and no instance is left allocated.
C16_ScopedInstance ==
    /\ [](th[1].pc = "with_done" => (id = None /\ eng.live = {}))
    /\ [][(~InBody /\ InBody') =>
              /\ id = None
              /\ id' # None
              /\ Live(eng', id')
              /\ ~Live(eng, id')
              /\ last'.calls[1] = Call("alm_new", None, None, Val(id'))]_vars
    /\ [][(InBody /\ ~InBody') =>
              /\ th'[1].pc = "with_done"
              /\ id' = None
              /\ IF id # None
                 THEN /\ Live(eng, id)
                      /\ last'.calls = <<Call("alm_delete", id, None, None)>>
                 ELSE last'.calls = <<>>]_vars
    /\ [][\A i \in 1..Len(last'.calls) :
              last'.calls[i].f = "alm_delete" => Live(eng, last'.calls[i].id)]_vars

\* A block whose body raised (a numbers assignment that no longer agrees
\* with the coordinates, then suggest): the instance is deleted on exit.
C16_Witness ==
    /\ th[1].pc = "with_done"
    /\ th[1].err = ErrCounts
    /\ last.op = "alm_delete"
    /\ last.err = NoError
    /\ last.calls = <<Call("alm_delete", Some(0), None, None)>>
    /\ id = None
    /\ eng.live = {}

\* A block whose body finished normally after a define.
C16_WitnessNormal ==
    /\ th[1].pc = "with_done"
    /\ th[1].err = NoError
    /\ last.op = "alm_delete"
    /\ last.err = NoError
    /\ maxorder = 2
    /\ id = None

\* C17: on an initialized object, set_optimizer_control with a dictionary
\* in which some name is not, once lowered, one of the 15 recognized names
\* fails and calls nothing; otherwise it makes one engine call with a list
\* of 15 entries, entry i being the value given for the i-th recognized
\* name or None when that name is not given.
C17_OptionsValidated ==
    (last.op = "set_optimizer_control" /\ Initialized) =>
        LET d == last.args
            given(i) == {k \in DOMAIN d : KeyLower(k) = optimizer_control_keys[i]}
        IN  IF \E k \in DOMAIN d :
                  \A i \in 1..15 : KeyLower(k) # optimizer_control_keys[i]
            THEN /\ last.err # NoError
                 /\ last.calls = <<>>
            ELSE /\ last.err = NoError
                 /\ Len(last.calls) = 1
                 /\ last.calls[1].f = "set_optimizer_control"
                 /\ last.calls[1].id = id
                 /\ Len(last.calls[1].arg) = 15
                 /\ \A i \in 1..15 :
                      IF given(i) = {}
                      THEN last.calls[1].arg[i] = None
                      ELSE \E k \in given(i) : last.calls[1].arg[i] = Some(d[k])

\* Three options given in upper, mixed and lower case: standardize is
\* entry 6, l1_alpha entry 10 and l1_ratio entry 14 of the list.
C17_Witness ==
    /\ last.op = "set_optimizer_control"
    /\ DOMAIN last.args = {"L1_ALPHA", "Standardize", "l1_ratio"}
    /\ last.args["L1_ALPHA"] = 1
    /\ last.args["Standardize"] = 2
    /\ last.err = NoError
    /\ last.calls[1].arg[6] = Some(2)
    /\ last.calls[1].arg[10] = Some(1)
    /\ last.calls[1].arg[14] = Some(last.args["l1_ratio"])
    /\ last.calls[1].arg[1] = None

\* A recognized and an unrecognized name together: refused.
C17_WitnessRejected ==
    /\ last.op = "set_optimizer_control"
    /\ DOMAIN last.args = {"l1_ratio", "L1_Penalty"}
    /\ Initialized
    /\ last.err # NoError
    /\ last.calls = <<>>

\* The calls named f of the last operation.
CallsOf(f) == SelectSeq(last.calls, LAMBDA c : c.f = f)

\* C18: get_fc succeeds for every order up to maxorder in the modes
\* 'origin', 'irred' and 'all'.  In mode 'origin' it returns as many
\* coefficients as the engine counts for that order; in mode 'all' it
\* returns that same count times the number of pure translations the
\* engine reports; and in every mode the index array has one row of
\* order + 1 entries per coefficient, which is also the size of the buffers
\* the engine fills.
C18_AllIsOriginTimesNtrans ==
    /\ (/\ last.op = "get_fc" /\ Initialized
        /\ last.args.fc_order <= maxorder
        /\ last.args.mode \in {"origin", "irred", "irreducible", "all"}) =>
          last.err = NoError
    /\ (last.op = "get_fc" /\ last.err = NoError) =>
          LET r == Val(last.ret)
              o == last.args.fc_order
              counts == CallsOf("get_number_of_fc_elements")
              trans == CallsOf("get_atom_mapping_by_pure_translations")
              fill == last.calls[Len(last.calls)]
          IN  /\ o <= maxorder
              /\ r.indices = <<r.values, o + 1>>
              /\ fill.arg = [size |-> r.values, columns |-> o + 1]
              /\ last.args.mode = "origin" =>
                    /\ Len(counts) = 1 /\ counts[1].arg = o
                    /\ r.values = counts[1].ret
                    /\ fill.f = "get_fc_origin"
              /\ last.args.mode = "all" =>
                    /\ Len(counts) = 1 /\ counts[1].arg = o
                    /\ Len(trans) = 1
                    /\ r.values = trans[1].ret * counts[1].ret
                    /\ fill.f = "get_fc_all"

\* Order 2 in mode 'all' on a structure of two atoms with two pure
\* translations and two coefficients at the origin: four coefficients.
C18_Witness ==
    /\ last.op = "get_fc"
    /\ last.args = [fc_order |-> 2, mode |-> "all"]
    /\ last.err = NoError
    /\ CallsOf("get_atom_mapping_by_pure_translations")[1].ret = 2
    /\ CallsOf("get_number_of_fc_elements")[1].ret = 2
    /\ Val(last.ret).values = 4
    /\ Val(last.ret).indices = <<4, 3>>

\* The entries of the groups 1..n of a list of groups, one after another.
RECURSIVE Flat(_, _)
Flat(groups, n) == IF n = 0 THEN <<>> ELSE Flat(groups, n - 1) \o groups[n]

\* C19: get_displacement_patterns returns one group per pattern of the
\* engine; group i has as many entries as the engine counts displaced atoms
\* for pattern i; read group after group, the entries are the rows 1, 2,
\* ... of the engine's flat output, each exactly once and in the engine's
\* order; and every entry carries the one basis name the engine's answer
\* selects.  The list is thereby a function of the engine's output.
C19_PatternsInEngineOrder ==
    (last.op = "get_displacement_patterns" /\ last.err = NoError) =>
        LET pats == Val(last.ret).patterns
            nums == CallsOf("get_number_of_displaced_atoms")[1].ret
            out == CallsOf("get_displacement_patterns")[1]
            flat == Flat(pats, Len(pats))
        IN  /\ Len(pats) = Len(nums)
            /\ Len(pats) = CallsOf("get_number_of_displacement_patterns")[1].ret
            /\ \A i \in 1..Len(pats) : Len(pats[i]) = nums[i]
            /\ Len(flat) = out.arg.size
            /\ \A k \in 1..Len(flat) : flat[k].row = k
            /\ \A k \in 1..Len(flat) :
                  flat[k].basis = IF out.ret = 0 THEN "Cartesian" ELSE "Fractional"

\* Two patterns of two and one displaced atoms: rows 1, 2 and row 3.
C19_Witness ==
    /\ last.op = "get_displacement_patterns"
    /\ last.err = NoError
    /\ CallsOf("get_number_of_displaced_atoms")[1].ret = <<2, 1>>
    /\ Val(last.ret).patterns =
          <<  <<[row |-> 1, basis |-> "Fractional"],
                [row |-> 2, basis |-> "Fractional"]>>,
              <<[row |-> 3, basis |-> "Fractional"]>>  >>

\* C21: the engine never holds more than one live instance for the
\* object; alm_new on an object that holds a handle fails, asks the engine
\* for nothing and keeps the handle; and every alm_delete sent to the
\* engine names a handle that is live when it is sent.  (Violated: after an
\* alm_new that the engine answered with -1 the object keeps -1 as its
\* handle, and alm_delete sends it to the engine.)
C21_OneLiveInstance ==
    /\ [](Cardinality(eng.live) <= 1)
    /\ []((last.op = "alm_new" /\ last.pre_id # None) =>
              (last.err # NoError /\ last.calls = <<>> /\ id = last.pre_id))
    /\ [][\A i \in 1..Len(last'.calls) :
              last'.calls[i].f = "alm_delete" => Live(eng, last'.calls[i].id)]_vars

\* At most one instance is live, and a second alm_new asks for nothing and
\* keeps the handle; this holds.
C21_SecondNewRefused ==
    /\ Cardinality(eng.live) <= 1
    /\ (last.op = "alm_new" /\ last.pre_id # None) =>
          (last.err = ErrRaiseStr /\ last.calls = <<>> /\ id = last.pre_id)
    /\ (last.op = "alm_delete" /\ last.pre_id = None) =>
          (last.err = ErrUninitialized /\ last.calls = <<>>)

\* C22: whenever the object holds a handle and is not marked stale, the
\* instance behind the handle is live and has received the object's
\* current structure and verbosity.  (Violated: alm_delete leaves
\* _need_transfer False, so the next alm_new transfers nothing.)
C22_FreshMeansTransferred ==
    (id # None /\ ~need_transfer) =>
        /\ Live(eng, id)
        /\ eng.cell = Some(Structure)
        /\ eng.verbosity = Some(verbosity)

\* What the flag does record: the current structure has been transferred
\* to some instance, not necessarily the one now held; this holds.
C22_TransferredToSomeInstance ==
    (id # None /\ ~need_transfer) => cell = Some(Structure)

\* C23: after an alm_new that raised on an object without a handle, the
\* object holds no handle and no instance is allocated.  (Violated: the
\* handle is stored before the tests, and nothing undoes it.)
C23_FailedNewLeavesNothing ==
    (last.op = "alm_new" /\ last.pre_id = None /\ last.err # NoError) =>
        (id = None /\ eng.live = {})

\* What a failed alm_new does leave: the handle the engine answered with,
\* and, when the transfer was rejected, the instance behind it; this holds.
C23_FailedNewKeepsHandle ==
    (last.op = "alm_new" /\ last.pre_id = None /\ last.err # NoError) =>
        /\ id = Some(last.calls[1].ret)
        /\ last.err = ErrTooMany => (Val(id) < 0 /\ eng.live = {})
        /\ last.err = ErrCounts => (Live(eng, id) /\ need_transfer)

\* The last operation is a call that input validation refuses: optimize
\* with an unknown solver name, define with an nbody of the wrong length or
\* with a cutoff_radii whose number of entries is not maxorder * K * K.
RejectedByValidation ==
    \/ last.op = "optimize" /\ last.args \notin {"dense", "SimplicialLDLT"}
    \/ /\ last.op = "define"
       /\ \/ /\ last.args.nbody # None
             /\ Len(Val(last.args.nbody)) # last.args.maxorder
          \/ /\ last.args.cutoff # None
             /\ \A K \in 0..Len(Val(last.args.cutoff)) :
                   Len(Val(last.args.cutoff)) # last.args.maxorder * K * K

C24_WitnessFresh ==
    /\ last.op = "optimize"
    /\ last.err = ErrSolver
    /\ ~last.pre_stale
    /\ last.calls = <<>>
    /\ ~need_transfer

\* C25: a define that succeeds issues, for the handle of the object, the
\* transfer (set_cell, set_verbosity) when it found the object stale, then
\* the engine's define with the given maxorder, then
\* generate_force_constant, and nothing else; no operation issues a define
\* that is not directly followed by generate_force_constant for the same
\* handle; and the recorded maxorder is the one of the define the engine
\* instance last received.
C25_DefineCallOrder ==
    /\ (last.op = "define" /\ last.err = NoError) =>
          /\ Fs(last.calls) =
                (IF last.pre_stale THEN <<"set_cell", "set_verbosity">> ELSE <<>>)
                \o <<"define", "generate_force_constant">>
          /\ \A i \in 1..Len(last.calls) : last.calls[i].id = id
          /\ last.calls[Len(last.calls) - 1].arg.maxorder = last.args.maxorder
          /\ maxorder = last.args.maxorder
    /\ \A i \in 1..Len(last.calls) :
          last.calls[i].f = "define" =>
              /\ i < Len(last.calls)
              /\ last.calls[i + 1].f = "generate_force_constant"
              /\ last.calls[i + 1].id = last.calls[i].id
    /\ eng.maxorder # None => eng.maxorder = Some(maxorder)

\* define(2) on a stale initialized object: four calls in this order.
C25_Witness ==
    /\ last.op = "define"
    /\ last.err = NoError
    /\ Initialized
    /\ last.pre_stale
    /\ Fs(last.calls) =
          <<"set_cell", "set_verbosity", "define", "generate_force_constant">>
    /\ maxorder = 2
    /\ eng.maxorder = Some(2)

\* C26: the basis a define hands the engine is 'Lattice' or 'Cartesian':
\* 'Lattice' for a value that is 'lattice' in any spelling, 'Cartesian' for
\* one that is 'cartesian' in any spelling, and 'Lattice' for every other
\* value; the value of the basis never makes define fail.
C26_BasisNormalized ==
    (last.op = "define" /\ TransferPassed) =>
        LET given == last.args.basis
            passed == DefineCalls[1].arg.basis
        IN  /\ last.err = NoError
            /\ Len(DefineCalls) = 1
            /\ passed \in {"Lattice", "Cartesian"}
            /\ given \in {"Lattice", "LATTICE", "lattice"} => passed = "Lattice"
            /\ given \in {"Cartesian", "CARTESIAN", "cartesian"} =>
                  passed = "Cartesian"
            /\ given \notin {"Lattice", "LATTICE", "lattice",
                              "Cartesian", "CARTESIAN", "cartesian"} =>
                  passed = "Lattice"

\* define(1, symmetrization_basis='CARTESIAN'): the engine gets 'Cartesian'.
C26_Witness ==
    /\ last.op = "define"
    /\ last.args.basis = "CARTESIAN"
    /\ last.err = NoError
    /\ DefineCalls[1].arg.basis = "Cartesian"

\* define(1, symmetrization_basis='Fractional'): the engine gets 'Lattice'.
C26_WitnessDefault ==
    /\ last.op = "define"
    /\ last.args.basis = "Fractional"
    /\ last.err = NoError
    /\ DefineCalls[1].arg.basis = "Lattice"

====
